---- MODULE Spec2Model ----
(***************************************************************************)
(* A model of the immutable ComplexNumber value type of                    *)
(* src/src/complexNumber.js.                                               *)
(*                                                                         *)
(* NUMBERS.  A JavaScript number is an IEEE-754 binary floating-point      *)
(* value: a sign, a significand of fixed width and an exponent, every      *)
(* arithmetic result rounded to the nearest representable value (ties to   *)
(* even).  The model keeps exactly that structure at a reduced width: a    *)
(* number is an integer count of 2^-FracBits, and it is representable when *)
(* its magnitude has at most Prec significant bits.  Rounding, absorption  *)
(* of a small addend by a large one, the inexact value of PI and the       *)
(* resulting non-zero sin(PI) are therefore all present, which is what     *)
(* the range and tolerance properties of the class are sensitive to.       *)
(* TOLERANCE keeps its role of an absolute bound that is several units in  *)
(* the last place of 1.  Magnitudes are capped by MaxBits; NaN, the        *)
(* infinities and the sign of zero are outside the modelled range.         *)
(***************************************************************************)
EXTENDS Integers, Sequences, FiniteSets, TLC

-----------------------------------------------------------------------------
(* The number format *)

Prec == 9          \* significant bits of a number
FracBits == 16     \* a number n denotes n / 2^FracBits
FineBits == 22     \* working precision of the angle computations
SeriesBits == 15   \* working precision of the power series
MaxBits == 21      \* numbers of the model are at most 2^MaxBits units (32.0)

Unit == 2^FracBits
Fine == 2^FineBits
One15 == 2^SeriesBits
Limit == 2^MaxBits

Abs(n) == IF n < 0 THEN -n ELSE n

Sgn(n) == IF n < 0 THEN -1 ELSE IF n > 0 THEN 1 ELSE 0

Min(a, b) == IF a < b THEN a ELSE b

RECURSIVE BitLen(_)
BitLen(n) == IF n <= 0 THEN 0 ELSE 1 + BitLen(n \div 2)

\* the spacing of representable numbers at magnitude n
Ulp(n) == IF BitLen(n) <= Prec THEN 1 ELSE 2^(BitLen(n) - Prec)

Expo(n) == IF BitLen(n) <= Prec THEN 0 ELSE BitLen(n) - Prec

Mant(n) == n \div 2^Expo(n)

Representable(n) == Abs(n) % Ulp(Abs(n)) = 0

\* num/den between the multiples lo and lo + s of the spacing s: the nearer
\* one, ties to the even significand
RoundTie(num, den, s, lo) ==
    IF 2 * (num - lo * den) < s * den THEN lo
    ELSE IF 2 * (num - lo * den) > s * den THEN lo + s
    ELSE IF (lo \div s) % 2 = 0 THEN lo ELSE lo + s

RoundTo(num, den, s) == RoundTie(num, den, s, ((num \div den) \div s) * s)

\* num/den (num >= 0, den > 0) rounded to the nearest representable number
RoundRatio(num, den) == RoundTo(num, den, Ulp(num \div den))

RoundShifted(num, den, e, k) == RoundRatio(num * 2^k, den) * 2^(e - k)

\* (num/den) * 2^e rounded to the nearest representable number
RoundQ(num, den, e) ==
    IF num = 0 THEN 0
    ELSE IF e >= 0
    THEN RoundShifted(num, den, e, Min(e, 29 - BitLen(num)))
    ELSE RoundRatio(num, den * 2^(-e))

\* IEEE round-to-nearest of an exact integer count of units
Fl(n) == Sgn(n) * RoundRatio(Abs(n), 1)

FAdd(a, b) == Fl(a + b)

FSub(a, b) == Fl(a - b)

FMul(a, b) ==
    Sgn(a) * Sgn(b) *
        RoundQ(Mant(Abs(a)) * Mant(Abs(b)), 1,
               Expo(Abs(a)) + Expo(Abs(b)) - FracBits)

FDiv(a, b) ==
    Sgn(a) * Sgn(b) *
        RoundQ(Mant(Abs(a)), Mant(Abs(b)),
               Expo(Abs(a)) - Expo(Abs(b)) + FracBits)

\* the sizes of a product and of a quotient, decided before computing them
MulFits(a, b) == BitLen(Abs(a)) + BitLen(Abs(b)) - FracBits <= MaxBits

DivFits(a, b) == BitLen(Abs(a)) - BitLen(Abs(b)) + FracBits + 1 <= MaxBits

\* JavaScript's % on numbers: exact, with the sign of the dividend
JSRem(a, b) == Sgn(a) * (Abs(a) % Abs(b))

ISqrtStep(n, r) == IF (r + 1) * (r + 1) <= n THEN r + 1 ELSE r

RECURSIVE ISqrt(_)
ISqrt(n) == IF n < 2 THEN n ELSE ISqrtStep(n, 2 * ISqrt(n \div 4))

\* the square root of M between the multiples lo and lo + s of the spacing s
SqrtTie(M, s, lo) ==
    IF 4 * M < (2 * lo + s) * (2 * lo + s) THEN lo
    ELSE IF 4 * M > (2 * lo + s) * (2 * lo + s) THEN lo + s
    ELSE IF (lo \div s) % 2 = 0 THEN lo ELSE lo + s

SqrtTo(M, r0, s) == SqrtTie(M, s, (r0 \div s) * s)

SqrtRound(M, r0) == SqrtTo(M, r0, Ulp(r0))

MathSqrtAt(n, e, odd) ==
    SqrtRound(Mant(n) * 2^odd * Unit, ISqrt(Mant(n) * 2^odd * Unit))
        * 2^((e - odd) \div 2)

\* Math.sqrt: the correctly rounded square root
MathSqrt(n) == IF n <= 0 THEN 0 ELSE MathSqrtAt(n, Expo(n), Expo(n) % 2)

-----------------------------------------------------------------------------
(* Math.PI, Math.cos, Math.sin, Math.atan2 *)

PiFine == 13176795            \* pi in units of 2^-FineBits
HalfPiFine == PiFine \div 2
QuarterPiFine == PiFine \div 4

MathPI == RoundQ(PiFine, 1, FracBits - FineBits)

\* division rounding to the nearest integer, for the fixed-point series
RDiv(a, b) == (2 * a + b) \div (2 * b)

\* product and powers in units of 2^-SeriesBits
FixMul(a, b) == RDiv(a * b, One15)

RECURSIVE FixPow(_, _)
FixPow(z, k) == IF k = 1 THEN z ELSE FixMul(FixPow(z, k - 1), z)

\* from units of 2^-FineBits to units of 2^-SeriesBits
ToSeries(r) == RDiv(r, 2^(FineBits - SeriesBits))

CosSeries(z) ==
    One15 - RDiv(z, 2) + RDiv(FixPow(z, 2), 24) - RDiv(FixPow(z, 3), 720)
          + RDiv(FixPow(z, 4), 40320)

\* cos r for |r| <= pi/4, r in units of 2^-FineBits; result in 2^-SeriesBits
CosR(r) == CosSeries(FixMul(ToSeries(r), ToSeries(r)))

SinSeries(r, z) ==
    r - RDiv(RDiv(r, 16) * (RDiv(z, 6) - RDiv(FixPow(z, 2), 120)
                                + RDiv(FixPow(z, 3), 5040)),
             2^(SeriesBits - 4))

\* sin r for |r| <= pi/4, r in units of 2^-FineBits; result in 2^-FineBits
SinR(r) == SinSeries(r, FixMul(ToSeries(r), ToSeries(r)))

CosFine(r) == CosR(r) * 2^(FineBits - SeriesBits)

ReduceFine(X, k) == <<k % 4, X - k * HalfPiFine>>

\* x = k * pi/2 + r with |r| <= pi/4: the pair <<k mod 4, r>>
Reduce(x) ==
    ReduceFine(x * 2^(FineBits - FracBits),
               (2 * x * 2^(FineBits - FracBits) + HalfPiFine) \div (2 * HalfPiFine))

RoundFine(v) == Sgn(v) * RoundQ(Abs(v), 1, FracBits - FineBits)

CosReduced(qr) ==
    CASE qr[1] = 0 -> CosFine(qr[2])
      [] qr[1] = 1 -> -SinR(qr[2])
      [] qr[1] = 2 -> -CosFine(qr[2])
      [] OTHER -> SinR(qr[2])

SinReduced(qr) ==
    CASE qr[1] = 0 -> SinR(qr[2])
      [] qr[1] = 1 -> CosFine(qr[2])
      [] qr[1] = 2 -> -SinR(qr[2])
      [] OTHER -> -CosFine(qr[2])

MathCos(x) == RoundFine(CosReduced(Reduce(x)))

MathSin(x) == RoundFine(SinReduced(Reduce(x)))

AtanPoly(t, z) ==
    RDiv(t * (One15 - RDiv(z, 3) + RDiv(FixPow(z, 2), 5) - RDiv(FixPow(z, 3), 7)
                    + RDiv(FixPow(z, 4), 9) - RDiv(FixPow(z, 5), 11)
                    + RDiv(FixPow(z, 6), 13) - RDiv(FixPow(z, 7), 15)),
         One15)

\* atan t for 0 <= t <= 1/2, t in 2^-SeriesBits; result in 2^-SeriesBits
AtanSeries(t) == AtanPoly(t, FixMul(t, t))

AtanSmall(t, z) == t - RDiv(t * (RDiv(z, 3) - RDiv(FixMul(z, z), 5)), One15)

\* atan t for 0 < t <= 1, t and the result in units of 2^-FineBits
AtanOfRatio(t) ==
    IF t < Fine \div 16
    THEN AtanSmall(t, FixMul(ToSeries(t), ToSeries(t)))
    ELSE IF t <= Fine \div 2
    THEN AtanSeries(ToSeries(t)) * 2^(FineBits - SeriesBits)
    ELSE QuarterPiFine
            - AtanSeries(((Fine - t) * 2^(SeriesBits - 7)) \div ((Fine + t) \div 2^7))
                * 2^(FineBits - SeriesBits)

\* atan(a/b) for 0 < a <= b, in units of 2^-FineBits
AtanFine(a, b) ==
    AtanOfRatio((Mant(a) * 2^(FineBits + Expo(a) - Expo(b))) \div Mant(b))

\* the angle of (a, b), a >= 0 and b >= 0, in [0, pi/2]
AtanOctant(a, b) ==
    IF a = 0 THEN 0
    ELSE IF b = 0 THEN HalfPiFine
    ELSE IF a <= b THEN AtanFine(a, b)
    ELSE HalfPiFine - AtanFine(b, a)

AtanQuadrant(y, x, phi) ==
    (IF y < 0 THEN -1 ELSE 1) * RoundFine(IF x >= 0 THEN phi ELSE PiFine - phi)

\* Math.atan2(y, x), in (-pi, pi]
MathAtan2(y, x) == AtanQuadrant(y, x, AtanOctant(Abs(y), Abs(x)))

-----------------------------------------------------------------------------
(* Math.pow, as power and root call it *)

RECURSIVE IntPow(_, _)
IntPow(b, n) == IF n = 0 THEN 1 ELSE b * IntPow(b, n - 1)

IRootStep(n, d, r) == IF IntPow(r + 1, d) <= n THEN r + 1 ELSE r

\* d-th root of n, rounded down
RECURSIVE IRoot(_, _)
IRoot(n, d) == IF n < 2 THEN n ELSE IRootStep(n, d, 2 * IRoot(n \div 2^d, d))

\* whether m ** n is computed inside the modelled range (n a whole number)
PowFits(m, n) ==
    IF n = 0 THEN TRUE
    ELSE IF m = 0 THEN n > 0
    ELSE IF n > 0
    THEN /\ BitLen(Mant(m)) * n <= 28
         /\ n * BitLen(m) - FracBits * (n - 1) <= MaxBits
    ELSE /\ BitLen(Mant(m)) * (-n) <= 21
         /\ FracBits + (-n) * (FracBits - BitLen(m) + 1) + 1 <= MaxBits

\* p * 2^e rounded, zero when it is below the smallest number
PowRound(p, e) ==
    IF e < 0 /\ BitLen(p) + 1 < 1 - e THEN 0 ELSE RoundQ(p, 1, e)

\* m ** n for a number m >= 0 and a whole number n
MathPow(m, n) ==
    IF n = 0 THEN Unit
    ELSE IF m = 0 THEN 0
    ELSE IF n > 0
    THEN PowRound(IntPow(Mant(m), n), n * (Expo(m) - FracBits) + FracBits)
    ELSE RoundQ(1, IntPow(Mant(m), -n), (-n) * (FracBits - Expo(m)) + FracBits)

RootRound(base, d, h, j) == RoundQ(IRoot(base * 2^(d * j), d), 1, h - j)

RootScaled(base, d, h) == RootRound(base, d, h, (29 - BitLen(base)) \div d)

RootAt(m, d, T) == RootScaled(Mant(m) * 2^(T % d), d, T \div d)

\* Math.pow(m, 1 / d) for a number m >= 0 and a whole number d >= 1
MathPowReciprocal(m, d) ==
    IF d = 1 \/ m = 0 THEN m
    ELSE IF d = 2 THEN MathSqrt(m)
    ELSE RootAt(m, d, Expo(m) + FracBits * (d - 1))

-----------------------------------------------------------------------------
(* Values *)

JSValue(type, val) ==
    [type |-> type, val |-> val, re |-> 0, im |-> 0, mod |-> 0, arg |-> 0]

Undefined == JSValue("undefined", 0)

\* the outcome of a call that threw
Thrown == JSValue("Error", 0)

Boolean(b) == JSValue("boolean", IF b THEN 1 ELSE 0)

\* the two-element arrays the conversion functions return
RectangularArray(real, imaginary) ==
    [type |-> "Array", val |-> 0, re |-> real, im |-> imaginary, mod |-> 0, arg |-> 0]

PolarArray(modulus, argument) ==
    [type |-> "Array", val |-> 0, re |-> 0, im |-> 0, mod |-> modulus, arg |-> argument]

\* a number as a value: val is its count of 2^-FracBits
Number(n) == JSValue("number", n)

\* the values the tests pass where a number is required
NON_NUMBER_TYPED_VALUES ==
    { JSValue(t, 0) : t \in {"bigint", "string", "boolean", "null",
                             "undefined", "symbol", "object"} }

\* the values the tests pass where a ComplexNumber is required
NON_COMPLEX_NUMBER_TYPED_VALUES ==
    { JSValue(t, 0) : t \in {"number", "bigint", "string", "boolean", "null",
                             "undefined", "symbol", "object"} }

-----------------------------------------------------------------------------
(* Configuration and constants of the module *)

\* ComplexNumberConfig.TOLERANCE: sixteen units in the last place of 1
TOLERANCE == Unit \div 16

HALF_TOLERANCE == TOLERANCE \div 2

TWO_PI == FAdd(MathPI, MathPI)

-----------------------------------------------------------------------------
(* @ceilingcat/assertions, as the class uses it: TRUE when the assertion passes *)

\* the type test of every assertion on a number
isNumber(value) == value.type = "number"

isNonNegativeNumber(value) == value >= 0

isPositiveNumber(value) == value > 0

isIntegerNumber(value) == value % Unit = 0

isInstanceOf(value, class) == value.type = class

-----------------------------------------------------------------------------
(* The class *)

principalArgumentOf(real, imaginary) == MathAtan2(imaginary, real)

withinTolerance(a, b) == Abs(FSub(a, b)) <= TOLERANCE

modulusSquared(real, imaginary) ==
    FAdd(FMul(real, real), FMul(imaginary, imaginary))

\* principalArgument < 0 ? principalArgument + TWO_PI : principalArgument
nonNegativeArgument(principalArgument) ==
    IF principalArgument < 0
    THEN FAdd(principalArgument, TWO_PI)
    ELSE principalArgument

argumentOf(real, imaginary) ==
    IF withinTolerance(real, 0) /\ withinTolerance(imaginary, 0)
    THEN 0
    ELSE nonNegativeArgument(principalArgumentOf(real, imaginary))

\* new ComplexNumber(real, imaginary, modulus, argument)
constructor(real, imaginary, modulus, argument) ==
    IF ~isNonNegativeNumber(modulus)
    THEN Thrown
    ELSE [type |-> "ComplexNumber", val |-> 0,
          re |-> real, im |-> imaginary, mod |-> modulus, arg |-> argument]

rectangularToPolar(real, imaginary) ==
    PolarArray(MathSqrt(modulusSquared(real, imaginary)),
               argumentOf(real, imaginary))

\* polarToRectangular without its modulus assertion
polarToRectangularUnchecked(modulus, argument) ==
    RectangularArray(FMul(MathCos(argument), modulus),
                     FMul(MathSin(argument), modulus))

polarToRectangular(modulus, argument) ==
    IF ~isNonNegativeNumber(modulus)
    THEN Thrown
    ELSE RectangularArray(FMul(MathCos(argument), modulus),
                          FMul(MathSin(argument), modulus))

\* new ComplexNumber(real, imaginary, ...polar)
withPolar(real, imaginary, polar) ==
    constructor(real, imaginary, polar.mod, polar.arg)

createRectangular(real, imaginary) ==
    withPolar(real, imaginary, rectangularToPolar(real, imaginary))

\* if (argument < 0) argument += TWO_PI
nonNegativeRemainder(remainder) ==
    IF remainder < 0 THEN FAdd(remainder, TWO_PI) ELSE remainder

\* createPolar's reduction without the branch for a modulus within tolerance
reducedArgumentUnsnapped(modulus, argument) ==
    nonNegativeRemainder(JSRem(argument, TWO_PI))

\* the argument createPolar stores
reducedArgument(modulus, argument) ==
    IF withinTolerance(modulus, 0)
    THEN 0
    ELSE nonNegativeRemainder(JSRem(argument, TWO_PI))

\* new ComplexNumber(...rectangular, modulus, argument)
withRectangular(rectangular, modulus, argument) ==
    IF rectangular.type = "Error"
    THEN Thrown
    ELSE constructor(rectangular.re, rectangular.im, modulus, argument)

\* createPolar once the argument is reduced
createReduced(modulus, argument) ==
    withRectangular(polarToRectangular(modulus, argument), modulus, argument)

createPolar(modulus, argument) ==
    IF ~isNonNegativeNumber(modulus)
    THEN Thrown
    ELSE createReduced(modulus, reducedArgument(modulus, argument))

ZERO == createRectangular(0, 0)

EAST == createRectangular(Unit, 0)

NORTH == createRectangular(0, Unit)

i == NORTH

WEST == createRectangular(-Unit, 0)

\* SOUTH made with the imaginary part of NORTH
southAsNorth == createRectangular(0, Unit)

SOUTH == createRectangular(0, -Unit)

NORTH_EAST == createPolar(Unit, FDiv(MathPI, 4 * Unit))

NORTH_WEST == createPolar(Unit, FDiv(FMul(3 * Unit, MathPI), 4 * Unit))

SOUTH_WEST == createPolar(Unit, FDiv(FMul(5 * Unit, MathPI), 4 * Unit))

SOUTH_EAST == createPolar(Unit, FDiv(FMul(7 * Unit, MathPI), 4 * Unit))

\* a typeof test where the code tests instanceof
withAssertedObject(value) == value.type \in {"ComplexNumber", "object"}

withAssertedComplexNumber(value) == isInstanceOf(value, "ComplexNumber")

equals(this, that) ==
    IF ~withAssertedComplexNumber(that)
    THEN Thrown
    ELSE Boolean(withinTolerance(this.re, that.re) /\ withinTolerance(this.im, that.im))

\* the guard comparing with exact zero instead of equals(ZERO)
withAssertedNotExactlyZero(complexNumber) ==
    /\ complexNumber.type = "ComplexNumber"
    /\ ~(complexNumber.re = 0 /\ complexNumber.im = 0)

\* TRUE when the guard passes: a ComplexNumber that does not equal ZERO
withAssertedNotZero(complexNumber) ==
    /\ withAssertedComplexNumber(complexNumber)
    /\ equals(complexNumber, ZERO) # Boolean(TRUE)

principalArgument(this) == MathAtan2(this.im, this.re)

conjugate(this) == createRectangular(this.re, -this.im)

add(this, addend) ==
    IF ~withAssertedComplexNumber(addend)
    THEN Thrown
    ELSE createRectangular(FAdd(addend.re, this.re), FAdd(addend.im, this.im))

subtract(this, subtrahend) ==
    IF ~withAssertedComplexNumber(subtrahend)
    THEN Thrown
    ELSE createRectangular(FSub(this.re, subtrahend.re), FSub(this.im, subtrahend.im))

multiply(this, factor) ==
    IF ~withAssertedComplexNumber(factor)
    THEN Thrown
    ELSE createPolar(FMul(this.mod, factor.mod), FAdd(this.arg, factor.arg))

\* power accepting every number, integer or not
powerAnyNumber(this, exponent) ==
    IF ~isNumber(exponent)
    THEN Thrown
    ELSE createPolar(MathPow(this.mod, exponent.val \div Unit),
                     FMul(this.arg, exponent.val))

\* power with the argument of the receiver kept instead of multiplied
powerArgumentKept(this, exponent) ==
    IF ~isNumber(exponent) \/ ~isIntegerNumber(exponent.val)
    THEN Thrown
    ELSE createPolar(MathPow(this.mod, exponent.val \div Unit), this.arg)

power(this, exponent) ==
    IF ~isNumber(exponent) \/ ~isIntegerNumber(exponent.val)
    THEN Thrown
    ELSE createPolar(MathPow(this.mod, exponent.val \div Unit),
                     FMul(this.arg, exponent.val))

root(this, degree) ==
    IF ~isNumber(degree) \/ ~isPositiveNumber(degree.val)
            \/ ~isIntegerNumber(degree.val)
    THEN Thrown
    ELSE createPolar(MathPowReciprocal(this.mod, degree.val \div Unit),
                     FDiv(principalArgument(this), degree.val))

divide(this, denominator) ==
    IF ~withAssertedNotZero(denominator)
    THEN Thrown
    ELSE createPolar(FDiv(this.mod, denominator.mod),
                     FSub(this.arg, denominator.arg))

normalise(this) ==
    IF ~withAssertedNotZero(this)
    THEN Thrown
    ELSE createPolar(Unit, this.arg)

inverse(this) == divide(EAST, this)

\* negate with the sign of the imaginary part left as it is
negateRealOnly(this) ==
    IF equals(this, ZERO) = Boolean(TRUE)
    THEN ZERO
    ELSE createRectangular(-this.re, this.im)

negate(this) ==
    IF equals(this, ZERO) = Boolean(TRUE)
    THEN ZERO
    ELSE createRectangular(-this.re, -this.im)

scale(this, number) ==
    IF ~isNumber(number)
    THEN Thrown
    ELSE createRectangular(FMul(this.re, number.val), FMul(this.im, number.val))

-----------------------------------------------------------------------------
(* The bounds of the model, and the inputs the calls are made with *)

MaxSteps == 1      \* results the caller goes on with as the next receiver
MaxExponent == 3   \* power is called with exponents -MaxExponent..MaxExponent
MaxDegree == 2     \* root is called with degrees up to MaxDegree

\* real and imaginary parts: zero, the tolerance boundary from both sides,
\* one unit in the last place, and values of ordinary size
RectangularInputs ==
    {0, -1, TOLERANCE, -TOLERANCE, TOLERANCE + Ulp(TOLERANCE), Unit, -Unit, 3 * Unit}

\* moduli: negative, zero, the tolerance boundary, 1, and 1 / TOLERANCE
ModulusInputs ==
    {-Unit, -1, 0, HALF_TOLERANCE, TOLERANCE, TOLERANCE + Ulp(TOLERANCE),
     Unit, FDiv(Unit, TOLERANCE)}

\* arguments: in range, negative, one unit in the last place below zero,
\* 2 pi and beyond
ArgumentInputs ==
    {0, -1, FDiv(MathPI, 4 * Unit), FDiv(MathPI, 2 * Unit), MathPI,
     FDiv(FMul(3 * Unit, MathPI), 2 * Unit), TWO_PI, -FDiv(MathPI, 2 * Unit),
     FMul(3 * Unit, MathPI), -13 * Unit}

Exponents ==
    {Number(n * Unit) : n \in -MaxExponent .. MaxExponent}
        \cup {Number(Unit \div 2)} \cup NON_NUMBER_TYPED_VALUES

Degrees ==
    {Number(d * Unit) : d \in 0 .. MaxDegree}
        \cup {Number(-Unit), Number(Unit \div 2)} \cup NON_NUMBER_TYPED_VALUES

ScaleFactors ==
    {Number(-Unit), Number(0), Number(2 * Unit)} \cup NON_NUMBER_TYPED_VALUES

Constants ==
    {ZERO, EAST, NORTH, WEST, SOUTH, NORTH_EAST, NORTH_WEST, SOUTH_WEST, SOUTH_EAST}

\* the static getters of the constants
ConstantNames ==
    <<"ZERO", "EAST", "NORTH", "i", "WEST", "SOUTH",
      "NORTH_EAST", "NORTH_WEST", "SOUTH_WEST", "SOUTH_EAST">>

StaticGetter(name) ==
    CASE name = "ZERO" -> ZERO
      [] name = "EAST" -> EAST
      [] name = "NORTH" -> NORTH
      [] name = "i" -> i
      [] name = "WEST" -> WEST
      [] name = "SOUTH" -> SOUTH
      [] name = "NORTH_EAST" -> NORTH_EAST
      [] name = "NORTH_WEST" -> NORTH_WEST
      [] name = "SOUTH_WEST" -> SOUTH_WEST
      [] name = "SOUTH_EAST" -> SOUTH_EAST

IsComplexNumber(v) == v.type = "ComplexNumber"

\* a value whose fields are inside the modelled range
InRange(v) ==
    /\ Abs(v.re) <= Limit
    /\ Abs(v.im) <= Limit
    /\ Abs(v.mod) <= Limit

-----------------------------------------------------------------------------
(* The state: one caller holding a receiver, the argument and the outcome  *)
(* of its last call                                                        *)

VARIABLES
    self,      \* the ComplexNumber the caller holds and calls methods on
    other,     \* the argument of the last binary operation
    call,      \* the last call: its name and its number arguments
    result,    \* what the last call returned, or Thrown
    steps      \* results the caller has gone on with as its receiver

vars == <<self, other, call, result, steps>>

Call(op, a, b) == [op |-> op, a |-> a, b |-> b, from |-> <<>>]

Init ==
    /\ self = ZERO
    /\ other = Undefined
    /\ call = Call("none", 0, 0)
    /\ result = Undefined
    /\ steps = 0

\* a static call starts a computation: the caller holds what it returned
Start(op, a, b, value) ==
    /\ call.op = "none"
    /\ call' = Call(op, a, b)
    /\ result' = value
    /\ self' = IF IsComplexNumber(value) THEN value ELSE ZERO
    /\ other' = Undefined
    /\ steps' = 0

CreateRectangular ==
    \E real \in RectangularInputs, imaginary \in RectangularInputs :
        Start("createRectangular", real, imaginary, createRectangular(real, imaginary))

CreatePolar ==
    \E modulus \in ModulusInputs, argument \in ArgumentInputs :
        Start("createPolar", modulus, argument, createPolar(modulus, argument))

Constant ==
    \E k \in 1 .. Len(ConstantNames) :
        Start("constant", k, 0, StaticGetter(ConstantNames[k]))

PolarToRectangular ==
    \E modulus \in ModulusInputs, argument \in ArgumentInputs :
        Start("polarToRectangular", modulus, argument,
              polarToRectangular(modulus, argument))

RectangularToPolar ==
    \E real \in RectangularInputs, imaginary \in RectangularInputs :
        Start("rectangularToPolar", real, imaginary,
              rectangularToPolar(real, imaginary))

\* rectangularToPolar(...polarToRectangular(modulus, argument))
RoundTrip ==
    /\ call.op = "polarToRectangular"
    /\ result.type = "Array"
    /\ call' = [op |-> "rectangularToPolar", a |-> result.re, b |-> result.im,
                from |-> <<call.a, call.b>>]
    /\ result' = rectangularToPolar(result.re, result.im)
    /\ UNCHANGED <<self, other, steps>>

UnaryOperations == {"conjugate", "negate", "inverse", "normalise"}

\* the caller holds a receiver and has not called anything on it yet
Fresh == call.op \in {"createRectangular", "createPolar", "constant", "keep"}

\* an operation that stores what it computes in its receiver
MethodInPlace(op, a, argument, value) ==
    /\ Fresh \/ (call.op \in UnaryOperations /\ argument = result)
    /\ InRange(value)
    /\ call' = Call(op, a, 0)
    /\ other' = argument
    /\ result' = value
    /\ self' = IF IsComplexNumber(value) THEN value ELSE self
    /\ UNCHANGED steps

\* an instance operation of the receiver: it returns or throws, and leaves
\* the receiver as it is.  It is called on a fresh receiver, or with what a
\* unary operation of the receiver has just returned, as in x.add(x.negate)
Method(op, a, argument, value) ==
    /\ Fresh \/ (call.op \in UnaryOperations /\ argument = result)
    /\ InRange(value)
    /\ call' = Call(op, a, 0)
    /\ other' = argument
    /\ result' = value
    /\ UNCHANGED <<self, steps>>

\* what the caller passes to a binary operation
Operands ==
    IF Fresh
    THEN {ZERO, EAST, self} \cup NON_COMPLEX_NUMBER_TYPED_VALUES
    ELSE IF IsComplexNumber(result) THEN {result} ELSE {}

SumFits(a, b) == Abs(a + b) <= Limit

Add ==
    \E o \in Operands :
        /\ IsComplexNumber(o) => SumFits(self.re, o.re) /\ SumFits(self.im, o.im)
        /\ Method("add", 0, o, add(self, o))

Subtract ==
    \E o \in Operands :
        /\ IsComplexNumber(o) => SumFits(self.re, -o.re) /\ SumFits(self.im, -o.im)
        /\ Method("subtract", 0, o, subtract(self, o))

Multiply ==
    \E o \in Operands :
        /\ IsComplexNumber(o) => MulFits(self.mod, o.mod)
        /\ Method("multiply", 0, o, multiply(self, o))

Divide ==
    \E o \in Operands :
        /\ withAssertedNotZero(o) => DivFits(self.mod, o.mod)
        /\ Method("divide", 0, o, divide(self, o))

Equals ==
    \E o \in Operands : Method("equals", 0, o, equals(self, o))

Conjugate == Method("conjugate", 0, Undefined, conjugate(self))

Negate == Method("negate", 0, Undefined, negate(self))

Inverse ==
    /\ withAssertedNotZero(self) => DivFits(Unit, self.mod)
    /\ Method("inverse", 0, Undefined, inverse(self))

Normalise == Method("normalise", 0, Undefined, normalise(self))

Power ==
    \E exponent \in Exponents :
        /\ isIntegerNumber(exponent.val) => PowFits(self.mod, exponent.val \div Unit)
        /\ Method("power", exponent.val, exponent, power(self, exponent))

Root ==
    \E degree \in Degrees :
        /\ Method("root", degree.val, degree, root(self, degree))

Scale ==
    \E number \in ScaleFactors :
        /\ MulFits(self.re, number.val) /\ MulFits(self.im, number.val)
        /\ Method("scale", number.val, number, scale(self, number))

\* the caller goes on with the value the last call returned
Keep ==
    /\ ~Fresh
    /\ IsComplexNumber(result)
    /\ steps < MaxSteps
    /\ self' = result
    /\ call' = Call("keep", 0, 0)
    /\ other' = Undefined
    /\ steps' = steps + 1
    /\ UNCHANGED result

\* the caller drops what it holds and starts again
Drop ==
    /\ call.op # "none"
    /\ self' = ZERO
    /\ other' = Undefined
    /\ call' = Call("none", 0, 0)
    /\ result' = Undefined
    /\ steps' = 0

Next ==
    \/ CreateRectangular
    \/ CreatePolar
    \/ Constant
    \/ PolarToRectangular
    \/ RectangularToPolar
    \/ RoundTrip
    \/ Add
    \/ Subtract
    \/ Multiply
    \/ Divide
    \/ Equals
    \/ Conjugate
    \/ Negate
    \/ Inverse
    \/ Normalise
    \/ Power
    \/ Root
    \/ Scale
    \/ Keep
    \/ Drop

Spec == Init /\ [][Next]_vars

-----------------------------------------------------------------------------
(* The properties of the class, stated over the caller's state *)

\* every ComplexNumber the caller holds
Held == {v \in {self, other, result} : IsComplexNumber(v)}

IsTrue(v) == v = Boolean(TRUE)

IsFalse(v) == v = Boolean(FALSE)

ArgumentInRange(v) == v.mod >= 0 /\ 0 <= v.arg /\ v.arg < TWO_PI

\* C1: every ComplexNumber made by the creators, the constants and any
\* sequence of the operations has mod >= 0 and arg in [0, 2 pi), 2 pi being
\* the TWO_PI the code reduces by
C1_ArgumentRange == \A v \in Held : ArgumentInRange(v)

\* what createPolar returns for a modulus within tolerance: the argument 0 and
\* re, im and mod within TOLERANCE of 0, a number that equals ZERO
CanonicalZero(v) ==
    /\ IsComplexNumber(v)
    /\ v.arg = 0
    /\ withinTolerance(v.re, 0)
    /\ withinTolerance(v.im, 0)
    /\ withinTolerance(v.mod, 0)
    /\ IsTrue(equals(v, ZERO))

\* C2 as it is stated: every ComplexNumber whose mod is within TOLERANCE of 0
\* has arg exactly 0, and createPolar(m, theta) returns such a zero for every
\* m with |m| <= TOLERANCE, the negative ones included, whatever theta is
C2_ZeroCanonicalAnyModulus ==
    /\ \A v \in Held : withinTolerance(v.mod, 0) => v.arg = 0
    /\ (call.op = "createPolar" /\ Abs(call.a) <= TOLERANCE) =>
            CanonicalZero(result)

\* C2, amended: every ComplexNumber whose mod is within TOLERANCE of 0 has arg
\* exactly 0, and createPolar(m, theta) with 0 <= m <= TOLERANCE returns arg = 0
\* and re, im, mod within TOLERANCE of 0, a number that equals ZERO, whatever
\* theta is
C2_ZeroCanonical ==
    /\ \A v \in Held : withinTolerance(v.mod, 0) => v.arg = 0
    /\ (call.op = "createPolar" /\ 0 <= call.a /\ call.a <= TOLERANCE) =>
            CanonicalZero(result)

\* createPolar was called with a positive modulus within tolerance and a
\* negative argument, and stored the argument 0
C2_Witness ==
    /\ call.op = "createPolar"
    /\ 0 < call.a /\ call.a <= TOLERANCE
    /\ call.b < 0
    /\ IsComplexNumber(result)
    /\ result.arg = 0

DualConsistent(v) ==
    /\ withinTolerance(v.re, FMul(v.mod, MathCos(v.arg)))
    /\ withinTolerance(v.im, FMul(v.mod, MathSin(v.arg)))

\* C3: the four fields of every ComplexNumber agree: re is within TOLERANCE
\* of mod * cos(arg) and im is within TOLERANCE of mod * sin(arg)
C3_DualRepresentation == \A v \in Held : DualConsistent(v)

\* C4: rectangularToPolar(polarToRectangular(m, theta)) returns a modulus
\* within TOLERANCE of m, and an argument within TOLERANCE of theta reduced
\* into [0, 2 pi), or the argument 0 when m is within TOLERANCE of 0
C4_RoundTrip ==
    (call.op = "rectangularToPolar" /\ call.from # <<>>) =>
        LET m == call.from[1]
            theta == call.from[2]
        IN  /\ withinTolerance(result.mod, m)
            /\ IF withinTolerance(m, 0)
               THEN result.arg = 0
               ELSE withinTolerance(result.arg, theta % TWO_PI)

\* C5: x.multiply(EAST).equals(x) is true for every ComplexNumber x
C5_MultiplicativeIdentity ==
    (call.op = "multiply" /\ other = EAST) => IsTrue(equals(result, self))

\* C6: for every x that does not equal ZERO, x.inverse returns a number and
\* x.multiply(x.inverse) equals EAST and has the argument 0
C6_MultiplicativeInverse ==
    /\ (call.op = "inverse" /\ IsFalse(equals(self, ZERO))) =>
            IsComplexNumber(result)
    /\ (call.op = "multiply" /\ IsFalse(equals(self, ZERO))
            /\ other = inverse(self)) =>
            IsTrue(equals(result, EAST)) /\ result.arg = 0

\* C7: x.negate is ZERO when x equals ZERO and createRectangular(-re, -im)
\* otherwise, and x.add(x.negate).equals(ZERO) is true for every x
C7_AdditiveInverse ==
    /\ call.op = "negate" =>
            IF IsTrue(equals(self, ZERO))
            THEN result = ZERO
            ELSE /\ IsComplexNumber(result)
                 /\ result.re = -self.re
                 /\ result.im = -self.im
    /\ (call.op = "add" /\ other = negate(self)) => IsTrue(equals(result, ZERO))

\* a number with a non-zero imaginary part that does not equal ZERO was added
\* to its negation
C7_Witness ==
    /\ call.op = "add"
    /\ other = negate(self)
    /\ IsFalse(equals(self, ZERO))
    /\ self.im # 0
    /\ IsComplexNumber(result)

\* C8: divide throws when its argument equals ZERO, inverse and normalise
\* throw when the receiver equals ZERO, and each returns a ComplexNumber for
\* every ComplexNumber that does not equal ZERO
C8_ZeroDivisor ==
    /\ (call.op = "divide" /\ IsComplexNumber(other)) =>
            IF IsTrue(equals(other, ZERO))
            THEN result = Thrown
            ELSE IsComplexNumber(result)
    /\ call.op \in {"inverse", "normalise"} =>
            IF IsTrue(equals(self, ZERO))
            THEN result = Thrown
            ELSE IsComplexNumber(result)

\* divide threw for a divisor that is not exactly zero but equals ZERO
C8_Witness ==
    /\ call.op = "divide"
    /\ IsComplexNumber(other)
    /\ other.re # 0
    /\ IsTrue(equals(other, ZERO))
    /\ result = Thrown

\* C9: createPolar and polarToRectangular throw for every negative modulus,
\* and no ComplexNumber is made
C9_NegativeModulus ==
    (call.op \in {"createPolar", "polarToRectangular"} /\ call.a < 0) =>
        result = Thrown /\ Held = {ZERO}

\* createPolar threw for a negative modulus
C9_Witness ==
    /\ call.op = "createPolar"
    /\ call.a < 0
    /\ result = Thrown

\* C10: add, subtract, multiply, divide and equals throw for every argument
\* that is not a ComplexNumber
C10_NonComplexNumberArgument ==
    (call.op \in {"add", "subtract", "multiply", "divide", "equals"}
        /\ ~IsComplexNumber(other)) => result = Thrown

\* multiply threw for a plain object
C10_Witness ==
    /\ call.op = "multiply"
    /\ other.type = "object"
    /\ self # ZERO
    /\ result = Thrown

\* C11: power throws unless its argument is an integer-valued number, zero
\* and the negative integers being accepted; root throws unless its argument
\* is a positive integer; scale throws unless its argument is a number
C11_ScalarArguments ==
    /\ call.op = "power" =>
            (result = Thrown <=> ~(isNumber(other) /\ other.val % Unit = 0))
    /\ call.op = "root" =>
            (result = Thrown <=>
                ~(isNumber(other) /\ other.val > 0 /\ other.val % Unit = 0))
    /\ call.op = "scale" => (result = Thrown <=> ~isNumber(other))

\* root threw for the degree 0, on a receiver that is not ZERO
C11_Witness ==
    /\ call.op = "root"
    /\ other = Number(0)
    /\ self # ZERO
    /\ result = Thrown

InstanceOperations ==
    UnaryOperations \cup
        {"add", "subtract", "multiply", "divide", "equals", "power", "root", "scale"}

ProductRe(x, y) == FSub(FMul(x.re, y.re), FMul(x.im, y.im))

ProductIm(x, y) == FAdd(FMul(x.re, y.im), FMul(x.im, y.re))

\* C14: for all ComplexNumbers x and y, x.multiply(y) has re within TOLERANCE
\* of x.re*y.re - x.im*y.im and im within TOLERANCE of x.re*y.im + x.im*y.re
C14_MultiplyRectangular ==
    (call.op = "multiply" /\ IsComplexNumber(other)) =>
        /\ IsComplexNumber(result)
        /\ withinTolerance(result.re, ProductRe(self, other))
        /\ withinTolerance(result.im, ProductIm(self, other))

\* the standard quotient of x by y, computed on the parts as the tests do
QuotientRe(x, y) ==
    FDiv(FAdd(FMul(x.re, y.re), FMul(x.im, y.im)), modulusSquared(y.re, y.im))

QuotientIm(x, y) ==
    FDiv(FSub(FMul(x.im, y.re), FMul(x.re, y.im)), modulusSquared(y.re, y.im))

\* C15: for every x and every y that does not equal ZERO, x.divide(y) has re
\* within TOLERANCE of (x.re*y.re + x.im*y.im) / (y.re^2 + y.im^2) and im
\* within TOLERANCE of (x.im*y.re - x.re*y.im) / (y.re^2 + y.im^2)
C15_DivideRectangular ==
    (call.op = "divide" /\ IsComplexNumber(other)
            /\ IsFalse(equals(other, ZERO))) =>
        /\ IsComplexNumber(result)
        /\ withinTolerance(result.re, QuotientRe(self, other))
        /\ withinTolerance(result.im, QuotientIm(self, other))

\* EAST multiplied by x n times
RECURSIVE MultipliedBy(_, _)
MultipliedBy(x, n) ==
    IF n = 0 THEN EAST ELSE multiply(MultipliedBy(x, n - 1), x)

\* x.power(n) was called with a whole number n >= 0 and returned
PowerReturned ==
    /\ call.op = "power"
    /\ isNumber(other)
    /\ other.val >= 0
    /\ IsComplexNumber(result)

\* C16 as it is stated: for every x and every integer n >= 0, x.power(n)
\* equals EAST multiplied by x n times, with the same mod and arg within
\* TOLERANCE; x.power(0) is EAST, and the argument is in [0, 2 pi)
C16_PowerIsRepeatedMultiply ==
    PowerReturned =>
        /\ IsTrue(equals(result, MultipliedBy(self, other.val \div Unit)))
        /\ withinTolerance(result.mod, MultipliedBy(self, other.val \div Unit).mod)
        /\ withinTolerance(result.arg, MultipliedBy(self, other.val \div Unit).arg)
        /\ other.val = 0 => result = EAST
        /\ ArgumentInRange(result)

\* C16, amended: for every x and every integer n >= 0, x.power(0) is EAST,
\* also for ZERO, x.power(1) is EAST multiplied by x once, and x.power(n) has
\* its argument in [0, 2 pi); from n = 2 on the power and the repeated product
\* are rounded differently and need not agree within TOLERANCE
C16_Power ==
    PowerReturned =>
        /\ other.val = 0 => result = EAST
        /\ other.val = Unit => result = MultipliedBy(self, 1)
        /\ ArgumentInRange(result)

\* a power whose multiplied argument was beyond 2 pi and was reduced
C16_Witness ==
    /\ PowerReturned
    /\ other.val >= 2 * Unit
    /\ FMul(self.arg, other.val) >= TWO_PI
    /\ result.arg < MathPI

\* x.root(d) was called with a positive whole number d and returned
RootReturned ==
    /\ call.op = "root"
    /\ isNumber(other)
    /\ IsComplexNumber(result)

\* the argument C17 gives the principal root of x of degree d
PrincipalRootArgument(x, d) ==
    IF x.arg > MathPI
    THEN FSub(TWO_PI, FDiv(FSub(TWO_PI, x.arg), d))
    ELSE FDiv(x.arg, d)

\* C17: for every x and positive integer d, x.root(d) has mod = x.mod^(1/d)
\* and its argument in [0, 2 pi), equal to x.arg / d when x.arg <= pi and to
\* 2 pi - (2 pi - x.arg) / d when x.arg > pi, and x.root(d).power(d) equals x
C17_PrincipalRoot ==
    RootReturned =>
        /\ result.mod = MathPowReciprocal(self.mod, other.val \div Unit)
        /\ ArgumentInRange(result)
        /\ withinTolerance(result.arg, PrincipalRootArgument(self, other.val))
        /\ IsTrue(equals(power(result, other), self))

\* the argument C18 gives each constant
ConstantArgument(name) ==
    CASE name \in {"ZERO", "EAST"} -> 0
      [] name \in {"NORTH", "i"} -> FDiv(MathPI, 2 * Unit)
      [] name = "WEST" -> MathPI
      [] name = "SOUTH" -> FDiv(FMul(3 * Unit, MathPI), 2 * Unit)
      [] name = "NORTH_EAST" -> FDiv(MathPI, 4 * Unit)
      [] name = "NORTH_WEST" -> FDiv(FMul(3 * Unit, MathPI), 4 * Unit)
      [] name = "SOUTH_WEST" -> FDiv(FMul(5 * Unit, MathPI), 4 * Unit)
      [] name = "SOUTH_EAST" -> FDiv(FMul(7 * Unit, MathPI), 4 * Unit)

ConstantAsNamed(name, v) ==
    /\ IsComplexNumber(v)
    /\ name = "ZERO" => v.re = 0 /\ v.im = 0 /\ v.mod = 0 /\ v.arg = 0
    /\ name # "ZERO" =>
            /\ withinTolerance(v.mod, Unit)
            /\ withinTolerance(v.arg, ConstantArgument(name))
            /\ DualConsistent(v)
    /\ name = "i" => v = NORTH
    /\ v \in Constants

PrincipalOfArgument(argument) ==
    IF argument > MathPI THEN FSub(argument, TWO_PI) ELSE argument

\* C20: for every ComplexNumber x, x.principalArgument is x.arg when
\* x.arg <= pi and x.arg - 2 pi when x.arg > pi, within TOLERANCE, also for x
\* whose parts are within TOLERANCE of 0 and whose arg was snapped to 0
C20_PrincipalArgumentAgrees ==
    \A v \in Held :
        withinTolerance(principalArgument(v), PrincipalOfArgument(v.arg))

-----------------------------------------------------------------------------
====
